---- MODULE Spec2Model ----
(***************************************************************************)
(* Model of server/editor/scripts/ue_blueprint_to_text.py: the serializers *)
(* that turn a host blueprint (asset, graphs, nodes, pins) into a nested   *)
(* document.  Every serializer is a pure function of the host objects, so  *)
(* each one is an operator, and each specification draws a host object     *)
(* from a bounded set and applies the serializer to it.                    *)
(*                                                                         *)
(* Host objects are records whose fields are the outcomes of the host      *)
(* reads the script performs on them: a read either raises or yields a     *)
(* Python value.  A try/except of the script is a test of that outcome.    *)
(***************************************************************************)
EXTENDS Integers, Sequences, FiniteSets, TLC

VARIABLES pin, node, graph, asset_path, loaded, out, pc

vars == <<pin, node, graph, asset_path, loaded, out, pc>>

\* Longest pin list of a node, node list of a graph, graph list of one
\* category, interface list of an asset that the specifications draw.
MaxPins == 2
MaxNodes == 2
MaxGraphs == 2
MaxInterfaces == 2

\* ------------------------------------------------------------------------
\* Python values and host reads

\* A host read that raises, and one that yields v.
Raise == [exc |-> TRUE]
Ok(v) == [exc |-> FALSE, val |-> v]

\* Python values: None, a string-like value (str, unreal.Name), an enum
\* value known by its textual form, a host collection, a host object.
None == [t |-> "none"]
Str(s) == [t |-> "str", s |-> s]
Enum(chars) == [t |-> "enum", repr |-> chars]
List(items) == [t |-> "list", items |-> items]

\* Python truthiness (`if x:`).
Truthy(v) ==
    CASE v.t = "none" -> FALSE
      [] v.t = "str" -> v.s # ""
      [] v.t = "list" -> Len(v.items) > 0
      [] OTHER -> TRUE

\* str(x) of a string-like value.
PyStr(v) == IF v.t = "none" THEN "None" ELSE v.s

\* obj.get_editor_property(name): raises on None and on a missing property.
GetEditorProperty(obj, name) == IF name \in DOMAIN obj THEN obj[name] ELSE Raise

\* obj.get_name(), obj.get_class().get_name(), obj.get_path_name(): one read
\* each; a failure of either call of get_class().get_name() raises at the
\* same place.
GetName(obj) == GetEditorProperty(obj, "get_name")
GetClassName(obj) == GetEditorProperty(obj, "get_class_name")
GetPathName(obj) == GetEditorProperty(obj, "get_path_name")

\* No key: what a try block adds to a dict when its read fails.
NoKeys == [k \in {} |-> k]

\* The items of a host collection, for `for x in coll`.
Items(v) == IF v.t = "list" THEN v.items ELSE <<>>

\* ------------------------------------------------------------------------
\* Text of a pin direction: str(direction) as a sequence of characters, so
\* that upper() and the substring test are computed, not assumed.

UpperChar(c) ==
    CASE c = "e" -> "E" [] c = "g" -> "G" [] c = "p" -> "P" [] c = "d" -> "D"
      [] c = "i" -> "I" [] c = "n" -> "N" [] c = "u" -> "U" [] c = "t" -> "T"
      [] c = "o" -> "O"
      [] OTHER -> c

Upper(chars) == [i \in 1..Len(chars) |-> UpperChar(chars[i])]

Contains(sub, chars) ==
    \E i \in 1..(Len(chars) - Len(sub) + 1) : SubSeq(chars, i, i + Len(sub) - 1) = sub

INPUT == <<"I", "N", "P", "U", "T">>
EGPD_INPUT == <<"E", "G", "P", "D", "_">> \o INPUT

\* str(direction): the enum's textual form, or "None".
StrChars(v) == IF v.t = "enum" THEN v.repr ELSE <<"N", "o", "n", "e">>

\* ------------------------------------------------------------------------
\* get_pin_default, get_pin_type_str, serialize_pin

get_pin_default(p) ==
    LET r == GetEditorProperty(p, "default_value") IN
    IF r.exc THEN None
    ELSE IF Truthy(r.val) THEN Str(PyStr(r.val))
    ELSE None

get_pin_type_str(p) ==
    LET pt == GetEditorProperty(p, "pin_type") IN
    IF pt.exc THEN "unknown" ELSE
    LET cat == GetEditorProperty(pt.val, "pin_category") IN
    IF cat.exc THEN "unknown" ELSE
    LET sub == GetEditorProperty(pt.val, "pin_sub_category_object") IN
    IF sub.exc THEN "unknown" ELSE
    IF Truthy(sub.val)
    THEN LET nm == GetName(sub.val) IN
         IF nm.exc THEN "unknown" ELSE PyStr(cat.val) \o "(" \o nm.val \o ")"
    ELSE PyStr(cat.val)

\* The f-string of one linked pin: a read outcome, as any part may raise.
Connection(linked_pin) ==
    LET owner == GetEditorProperty(linked_pin, "get_owning_node") IN
    IF owner.exc THEN Raise ELSE
    LET cls == GetClassName(owner.val) IN
    IF cls.exc THEN Raise ELSE
    LET nm == GetEditorProperty(linked_pin, "pin_name") IN
    IF nm.exc THEN Raise ELSE Ok(cls.val \o ":" \o PyStr(nm.val))

\* The inner try of serialize_pin: the key it adds to info. connected_to is
\* assigned after the loop, when the link list is non-empty and every link
\* renders.
ConnectionKeys(p) ==
    LET linked == GetEditorProperty(p, "linked_to") IN
    IF linked.exc THEN NoKeys
    ELSE IF ~(Truthy(linked.val) /\ Len(Items(linked.val)) > 0) THEN NoKeys
    ELSE LET items == linked.val.items IN
         IF \E i \in 1..Len(items) : Connection(items[i]).exc THEN NoKeys
         ELSE "connected_to" :> [i \in 1..Len(items) |-> Connection(items[i]).val]

\* info["default"] = default, when get_pin_default yields a non-empty string.
DefaultKeys(p) ==
    LET default == get_pin_default(p) IN
    IF Truthy(default) THEN "default" :> default.s ELSE NoKeys

FallbackPin == [name |-> "unknown", direction |-> "unknown", type |-> "unknown"]

\* serialize_pin with the substring test made on the text as read, not on
\* its upper-case form.
serialize_pin_case_sensitive(p) ==
    LET d == GetEditorProperty(p, "direction") IN
    IF d.exc THEN FallbackPin ELSE
    LET txt == StrChars(d.val)
        is_input == Contains(INPUT, txt) \/ Contains(EGPD_INPUT, txt)
        nm == GetEditorProperty(p, "pin_name")
    IN
    IF nm.exc THEN FallbackPin ELSE
    LET info == [name |-> PyStr(nm.val),
                 direction |-> IF is_input THEN "Input" ELSE "Output",
                 type |-> get_pin_type_str(p)]
    IN info @@ DefaultKeys(p) @@ ConnectionKeys(p)

serialize_pin(p) ==
    LET d == GetEditorProperty(p, "direction") IN
    IF d.exc THEN FallbackPin ELSE
    LET up == Upper(StrChars(d.val))
        is_input == Contains(INPUT, up) \/ Contains(EGPD_INPUT, up)
        nm == GetEditorProperty(p, "pin_name")
    IN
    IF nm.exc THEN FallbackPin ELSE
    LET info == [name |-> PyStr(nm.val),
                 direction |-> IF is_input THEN "Input" ELSE "Output",
                 type |-> get_pin_type_str(p)]
    IN info @@ DefaultKeys(p) @@ ConnectionKeys(p)

\* ------------------------------------------------------------------------
\* Host pins drawn by the specifications

Chars(s) ==
    CASE s = "EGPD_Input" -> <<"E", "G", "P", "D", "_", "I", "n", "p", "u", "t">>
      [] s = "EGPD_Output" -> <<"E", "G", "P", "D", "_", "O", "u", "t", "p", "u", "t">>
      [] s = "egpd_input" -> <<"e", "g", "p", "d", "_", "i", "n", "p", "u", "t">>
      [] s = "INPU" -> <<"I", "N", "P", "U">>
      [] OTHER -> <<>>

DirectionReads ==
    {Raise, Ok(None)} \cup
    {Ok(Enum(Chars(s))) : s \in {"EGPD_Input", "EGPD_Output", "egpd_input", "INPU", ""}}

PinNameReads == {Raise} \cup {Ok(Str(s)) : s \in {"execute", "then", "", "Value"}}

NamedObj(nameRead) == [t |-> "obj", get_name |-> nameRead]

PinTypeReads ==
    {Raise,
     Ok([t |-> "obj", pin_category |-> Ok(Str("float")),
         pin_sub_category_object |-> Ok(None)]),
     Ok([t |-> "obj", pin_category |-> Ok(Str("struct")),
         pin_sub_category_object |-> Ok(NamedObj(Ok("Vector")))]),
     Ok([t |-> "obj", pin_category |-> Ok(Str("struct")),
         pin_sub_category_object |-> Ok(NamedObj(Raise))])}

DefaultReads == {Raise, Ok(None), Ok(Str("")), Ok(Str("5"))}

OwnerNode(classRead) == [t |-> "obj", get_class_name |-> classRead]

LinkedPin(ownerRead, nameRead) ==
    [t |-> "obj", get_owning_node |-> ownerRead, pin_name |-> nameRead]

GoodLink == LinkedPin(Ok(OwnerNode(Ok("K2Node_CallFunction"))), Ok(Str("ReturnValue")))
BadLinks ==
    {LinkedPin(Raise, Ok(Str("A"))),
     LinkedPin(Ok(OwnerNode(Raise)), Ok(Str("A"))),
     LinkedPin(Ok(OwnerNode(Ok("K2Node_Event"))), Raise)}

LinkedReads ==
    {Raise, Ok(None), Ok(List(<<>>)), Ok(List(<<GoodLink>>)), Ok(List(<<GoodLink, GoodLink>>))}
    \cup {Ok(List(<<GoodLink, b>>)) : b \in BadLinks}

HostPin(nm, dir, ty, def, links) ==
    [t |-> "obj", pin_name |-> nm, direction |-> dir, pin_type |-> ty,
     default_value |-> def, linked_to |-> links]

\* ------------------------------------------------------------------------
\* serialize_node

K2Node_CallFunction == "K2Node_CallFunction"
K2Node_VariableGet == "K2Node_VariableGet"
K2Node_VariableSet == "K2Node_VariableSet"
K2Node_Event == "K2Node_Event"
K2Node_CustomEvent == "K2Node_CustomEvent"
K2Node_MacroInstance == "K2Node_MacroInstance"

\* The try block reading node_comment: the key it adds to info.
CommentKeys(n) ==
    LET c == GetEditorProperty(n, "node_comment") IN
    IF c.exc THEN NoKeys
    ELSE IF Truthy(c.val) THEN "comment" :> PyStr(c.val)
    ELSE NoKeys

\* The K2Node_CallFunction branch: function is set before member_parent is
\* read, so a failure of the second read keeps the first key.
FunctionKeys(n) ==
    LET ref == GetEditorProperty(n, "function_reference") IN
    IF ref.exc THEN NoKeys ELSE
    IF ~Truthy(ref.val) THEN NoKeys ELSE
    LET mn == GetEditorProperty(ref.val, "member_name") IN
    IF mn.exc THEN NoKeys ELSE
    LET function == IF Truthy(mn.val) THEN "function" :> PyStr(mn.val) ELSE NoKeys
        mp == GetEditorProperty(ref.val, "member_parent")
    IN
    IF mp.exc THEN function ELSE
    IF ~Truthy(mp.val) THEN function ELSE
    LET pn == GetName(mp.val) IN
    IF pn.exc THEN function ELSE function @@ ("target_class" :> pn.val)

\* The K2Node_VariableGet / K2Node_VariableSet branch.
VariableKeys(n) ==
    LET ref == GetEditorProperty(n, "variable_reference") IN
    IF ref.exc THEN NoKeys ELSE
    IF ~Truthy(ref.val) THEN NoKeys ELSE
    LET mn == GetEditorProperty(ref.val, "member_name") IN
    IF mn.exc THEN NoKeys ELSE "variable" :> PyStr(mn.val)

\* The K2Node_Event / K2Node_CustomEvent branch.
EventNameKeys(n, node_class) ==
    IF node_class = K2Node_CustomEvent
    THEN LET fn == GetEditorProperty(n, "custom_function_name") IN
         IF fn.exc THEN NoKeys ELSE "event_name" :> PyStr(fn.val)
    ELSE LET ref == GetEditorProperty(n, "event_reference") IN
         IF ref.exc THEN NoKeys ELSE
         IF ~Truthy(ref.val) THEN NoKeys ELSE
         LET mn == GetEditorProperty(ref.val, "member_name") IN
         IF mn.exc THEN NoKeys ELSE "event_name" :> PyStr(mn.val)

\* The K2Node_MacroInstance branch.
MacroKeys(n) ==
    LET g == GetEditorProperty(n, "macro_graph_reference") IN
    IF g.exc THEN NoKeys ELSE
    IF ~Truthy(g.val) THEN NoKeys ELSE
    LET nm == GetName(g.val) IN
    IF nm.exc THEN NoKeys ELSE "macro" :> nm.val

\* The chain with a final else that treats every other kind as a call.
ExtensionKeys_fallthrough(n, node_class) ==
    IF node_class = K2Node_CallFunction THEN FunctionKeys(n)
    ELSE IF node_class = K2Node_VariableGet \/ node_class = K2Node_VariableSet
         THEN VariableKeys(n)
    ELSE IF node_class = K2Node_Event \/ node_class = K2Node_CustomEvent
         THEN EventNameKeys(n, node_class)
    ELSE IF node_class = K2Node_MacroInstance THEN MacroKeys(n)
    ELSE FunctionKeys(n)

\* The if / elif chain on node_class: the keys it adds to info.
ExtensionKeys(n, node_class) ==
    IF node_class = K2Node_CallFunction THEN FunctionKeys(n)
    ELSE IF node_class = K2Node_VariableGet \/ node_class = K2Node_VariableSet
         THEN VariableKeys(n)
    ELSE IF node_class = K2Node_Event \/ node_class = K2Node_CustomEvent
         THEN EventNameKeys(n, node_class)
    ELSE IF node_class = K2Node_MacroInstance THEN MacroKeys(n)
    ELSE NoKeys

\* The filter without the empty name.
IsSentinelName_no_empty(s) == s \in {"execute", "then"}

\* pin_name in ("execute", "then", "")
IsSentinelName(s) == s \in {"execute", "then", ""}

\* The pin loop's filter: the pins whose name is no sentinel name. It is
\* applied only when every pin's name is readable.
KeptPins(items) ==
    SelectSeq(items, LAMBDA p : ~IsSentinelName(PyStr(GetEditorProperty(p, "pin_name").val)))

\* The try block over the pins: the key it adds to info. The read of a
\* pin's name in the loop is not guarded on its own, so it raises into the
\* block's except, before info["pins"] is assigned.
PinsKeys(n) ==
    LET pins == GetEditorProperty(n, "pins") IN
    IF pins.exc THEN NoKeys ELSE
    IF ~Truthy(pins.val) THEN NoKeys ELSE
    LET items == Items(pins.val) IN
    IF \E i \in 1..Len(items) : GetEditorProperty(items[i], "pin_name").exc THEN NoKeys ELSE
    LET kept == KeptPins(items) IN
    IF Len(kept) > 0 THEN "pins" :> [i \in 1..Len(kept) |-> serialize_pin(kept[i])]
    ELSE NoKeys

\* A read outcome: the reads of the kind tag and of the name are unguarded.
serialize_node(n) ==
    LET cls == GetClassName(n) IN
    IF cls.exc THEN Raise ELSE
    LET nm == GetName(n) IN
    IF nm.exc THEN Raise ELSE
    Ok([class |-> cls.val, name |-> nm.val]
       @@ CommentKeys(n) @@ ExtensionKeys(n, cls.val) @@ PinsKeys(n))

\* ------------------------------------------------------------------------
\* Host nodes drawn by the specifications

NodeKinds ==
    {K2Node_CallFunction, K2Node_VariableGet, K2Node_VariableSet, K2Node_Event,
     K2Node_CustomEvent, K2Node_MacroInstance, "K2Node_IfThenElse",
     "K2Node_CallArrayFunction"}

MemberRef(nameRead, parentRead) ==
    [t |-> "obj", member_name |-> nameRead, member_parent |-> parentRead]

\* The reference properties of a node, whatever its kind: every property
\* unreadable, null, fully resolvable, or resolvable in part.
RefProfiles ==
    {[function_reference |-> Raise, variable_reference |-> Raise,
      event_reference |-> Raise, custom_function_name |-> Raise,
      macro_graph_reference |-> Raise],
     [function_reference |-> Ok(None), variable_reference |-> Ok(None),
      event_reference |-> Ok(None), custom_function_name |-> Ok(None),
      macro_graph_reference |-> Ok(None)],
     [function_reference |-> Ok(MemberRef(Ok(Str("PrintString")), Ok(NamedObj(Ok("KismetSystemLibrary"))))),
      variable_reference |-> Ok(MemberRef(Ok(Str("Health")), Ok(None))),
      event_reference |-> Ok(MemberRef(Ok(Str("ReceiveBeginPlay")), Ok(None))),
      custom_function_name |-> Ok(Str("OnOpened")),
      macro_graph_reference |-> Ok(NamedObj(Ok("ForEachLoop")))],
     [function_reference |-> Ok(MemberRef(Raise, Ok(NamedObj(Ok("Actor"))))),
      variable_reference |-> Ok(MemberRef(Raise, Ok(None))),
      event_reference |-> Ok(MemberRef(Raise, Ok(None))),
      custom_function_name |-> Raise,
      macro_graph_reference |-> Ok(NamedObj(Raise))],
     [function_reference |-> Ok(MemberRef(Ok(Str("Jump")), Raise)),
      variable_reference |-> Ok(MemberRef(Ok(None), Ok(None))),
      event_reference |-> Ok(MemberRef(Ok(None), Ok(None))),
      custom_function_name |-> Ok(Str("")),
      macro_graph_reference |-> Ok(NamedObj(Ok("DoOnce")))],
     [function_reference |-> Ok(MemberRef(Ok(Str("")), Ok(NamedObj(Raise)))),
      variable_reference |-> Ok(MemberRef(Ok(Str("Speed")), Raise)),
      event_reference |-> Ok(MemberRef(Ok(Str("Tick")), Raise)),
      custom_function_name |-> Ok(Str("Fire")),
      macro_graph_reference |-> Ok(None)]}

\* The profile in which every reference resolves.
FullRefs == CHOOSE r \in RefProfiles : r.custom_function_name = Ok(Str("OnOpened"))

CommentReads == {Raise, Ok(None), Ok(Str("")), Ok(Str("note"))}

HostNode(cls, nm, comment, refs, pins) ==
    [t |-> "obj", get_class_name |-> cls, get_name |-> nm, node_comment |-> comment,
     pins |-> pins] @@ refs

GoodType ==
    Ok([t |-> "obj", pin_category |-> Ok(Str("float")), pin_sub_category_object |-> Ok(None)])

\* The pins a node's pin list is drawn from: sentinel-named pins that carry
\* a direction, a type, a default and links or that are otherwise malformed,
\* ordinary pins, a pin whose direction is unreadable, a pin whose name is.
NodePins ==
    {HostPin(Ok(Str("execute")), Ok(Enum(Chars("EGPD_Input"))), GoodType, Ok(Str("5")), Ok(List(<<GoodLink>>))),
     HostPin(Ok(Str("execute")), Raise, Raise, Raise, Raise),
     HostPin(Ok(Str("then")), Ok(Enum(Chars("EGPD_Output"))), GoodType, Ok(None), Ok(List(<<>>))),
     HostPin(Ok(Str("")), Ok(Enum(Chars("EGPD_Input"))), GoodType, Ok(Str("1")), Ok(None)),
     HostPin(Ok(Str("Value")), Ok(Enum(Chars("EGPD_Input"))), GoodType, Ok(Str("5")), Ok(List(<<>>))),
     HostPin(Ok(Str("Result")), Ok(Enum(Chars("EGPD_Output"))), GoodType, Ok(None), Ok(List(<<GoodLink>>))),
     HostPin(Ok(Str("Target")), Raise, GoodType, Ok(None), Ok(None)),
     HostPin(Raise, Ok(Enum(Chars("EGPD_Input"))), GoodType, Ok(None), Ok(None))}

\* The sequences over S of length at most n.
SeqsUpTo(S, n) == UNION {[1..k -> S] : k \in 0..n}

PinsReads == {Raise, Ok(None)} \cup {Ok(List(q)) : q \in SeqsUpTo(NodePins, MaxPins)}

\* The value of a variable that a specification does not use.
Unused == <<>>

\* ------------------------------------------------------------------------
\* Specification of serialize_pin

InitPin ==
    /\ \E nm \in PinNameReads, dir \in DirectionReads, ty \in PinTypeReads,
          def \in DefaultReads, links \in LinkedReads :
            pin = HostPin(nm, dir, ty, def, links)
    /\ node = Unused /\ graph = Unused /\ asset_path = Unused /\ loaded = Unused
    /\ out = Unused
    /\ pc = "call"

CallSerializePin ==
    /\ pc = "call"
    /\ out' = serialize_pin(pin)
    /\ pc' = "done"
    /\ UNCHANGED <<pin, node, graph, asset_path, loaded>>

SpecPin == InitPin /\ [][CallSerializePin]_vars

\* ------------------------------------------------------------------------
\* Properties of serialize_pin

MarkerLetters == <<{"I", "i"}, {"N", "n"}, {"P", "p"}, {"U", "u"}, {"T", "t"}>>

\* The text holds the letters of "input" in a row, in either case.
HasInputMarker(chars) ==
    \E i \in 1..(Len(chars) - 4) : \A k \in 1..5 : chars[i + k - 1] \in MarkerLetters[k]

MarkedInput(p) == ~p.direction.exc /\ HasInputMarker(StrChars(p.direction.val))

\* C5, as stated: the direction of every fragment serialize_pin returns is
\* Input when the direction's text holds an input marker and Output in every
\* other case, an unreadable direction included; never a third value.
C5_DirectionTwoValued ==
    pc = "done" =>
        /\ out.direction \in {"Input", "Output"}
        /\ out.direction = "Input" <=> MarkedInput(pin)

\* C5, amended: when the direction and the name of the pin are both
\* readable, the direction is Input when the direction's text holds an input
\* marker in either case and Output otherwise (a None direction included);
\* when either read raises, the fragment is the fallback fragment, whose
\* direction is "unknown".
C5_DirectionTwoValuedWhenReadable ==
    pc = "done" =>
        IF pin.direction.exc \/ pin.pin_name.exc
        THEN out = FallbackPin /\ out.direction = "unknown"
        ELSE out.direction = IF MarkedInput(pin) THEN "Input" ELSE "Output"

C5_Witness ==
    /\ pc = "done"
    /\ ~pin.direction.exc /\ ~pin.pin_name.exc
    /\ pin.direction.val.t = "enum"
    /\ pin.direction.val.repr = Chars("egpd_input")
    /\ out.direction = "Input"

\* C7, as stated: no fragment serialize_pin returns holds both `default`
\* and `connected_to`.
C7_DefaultOnlyIfUnconnected ==
    pc = "done" => ~({"default", "connected_to"} \subseteq DOMAIN out)

\* ------------------------------------------------------------------------
\* Specification of serialize_node

\* Every kind, name, comment and reference profile with an empty pin list,
\* and every pin list on a recognized and on an unrecognized kind.
InitNode ==
    /\ \/ \E cls \in {Raise} \cup {Ok(k) : k \in NodeKinds}, nm \in {Raise, Ok("Node_0")},
             c \in CommentReads, refs \in RefProfiles :
               node = HostNode(cls, nm, c, refs, Ok(List(<<>>)))
       \/ \E k \in {K2Node_CallFunction, "K2Node_IfThenElse"}, pins \in PinsReads :
               /\ pins # Ok(List(<<>>))
               /\ node = HostNode(Ok(k), Ok("Node_0"), Ok(Str("note")), FullRefs, pins)
    /\ pin = Unused /\ graph = Unused /\ asset_path = Unused /\ loaded = Unused
    /\ out = Unused
    /\ pc = "call"

CallSerializeNode ==
    /\ pc = "call"
    /\ out' = serialize_node(node)
    /\ pc' = "done"
    /\ UNCHANGED <<pin, node, graph, asset_path, loaded>>

SpecNode == InitNode /\ [][CallSerializeNode]_vars

\* ------------------------------------------------------------------------
\* Properties of serialize_node

PinFragments(info) == IF "pins" \in DOMAIN info THEN info.pins ELSE <<>>

\* A host pin that is no sentinel pin: its name is unreadable or is none of
\* the sentinel names.
NotSentinelPin(p) ==
    p.pin_name.exc \/ PyStr(p.pin_name.val) \notin {"execute", "then", ""}

OwnReadsFail(p) == p.pin_name.exc \/ p.direction.exc

\* C4, as stated: when the node's pin collection is readable, `pins` holds
\* one fragment per host pin that is no sentinel pin, in host order; a pin
\* whose own reads fail is the fallback fragment there, and the other
\* fragments are what serialize_pin makes of their pins.
C4_MalformedPinKeepsItsSlot ==
    (pc = "done" /\ ~out.exc /\ ~node.pins.exc /\ node.pins.val.t = "list") =>
        LET host == SelectSeq(node.pins.val.items, NotSentinelPin)
            frags == PinFragments(out.val)
        IN /\ Len(frags) = Len(host)
           /\ \A i \in 1..Len(host) :
                frags[i] = IF OwnReadsFail(host[i]) THEN FallbackPin
                           ELSE serialize_pin(host[i])

BaseKeys == {"class", "name", "comment", "pins"}

RecognizedKinds ==
    {K2Node_CallFunction, K2Node_VariableGet, K2Node_VariableSet, K2Node_Event,
     K2Node_CustomEvent, K2Node_MacroInstance}

\* C9: a node fragment holds `function` or `target_class` only if its class
\* is the call-function kind, `variable` only if variable-get or
\* variable-set, `event_name` only if event or custom-event, `macro` only if
\* macro-instance; a fragment of any other kind holds only `class`, `name`,
\* `comment` and `pins`.
C9_ExtensionOnlyForMatchingKind ==
    (pc = "done" /\ ~out.exc) =>
        LET keys == DOMAIN out.val
            kind == out.val.class
        IN /\ kind = node.get_class_name.val
           /\ ("function" \in keys \/ "target_class" \in keys) => kind = K2Node_CallFunction
           /\ "variable" \in keys => kind \in {K2Node_VariableGet, K2Node_VariableSet}
           /\ "event_name" \in keys => kind \in {K2Node_Event, K2Node_CustomEvent}
           /\ "macro" \in keys => kind = K2Node_MacroInstance
           /\ kind \notin RecognizedKinds => keys \subseteq BaseKeys
           /\ {"class", "name"} \subseteq keys

\* A node of an unrecognized kind whose function reference resolves.
C9_Witness ==
    /\ pc = "done" /\ ~out.exc
    /\ out.val.class = "K2Node_CallArrayFunction"
    /\ ~node.function_reference.exc
    /\ Truthy(node.function_reference.val)
    /\ node.function_reference.val.member_name = Ok(Str("PrintString"))
    /\ DOMAIN out.val \subseteq BaseKeys

\* The places in the host pin list of the pins that carry a sentinel name,
\* and of those that carry another (readable) name.
SentinelPlaces(items) ==
    {i \in 1..Len(items) :
        ~items[i].pin_name.exc /\ PyStr(items[i].pin_name.val) \in {"execute", "then", ""}}

HostPinItems(n) == IF ~n.pins.exc /\ n.pins.val.t = "list" THEN n.pins.val.items ELSE <<>>

\* C10: no fragment of a node's `pins` comes from a host pin named
\* `execute`, `then` or the empty string: no fragment carries such a name,
\* and there are no more fragments than host pins with another name (so a
\* sentinel pin does not get in as a fallback fragment either); `pins` is
\* left out when no pin passes the filter, and is never an empty list.
C10_SentinelPinsNeverAppear ==
    (pc = "done" /\ ~out.exc) =>
        LET items == HostPinItems(node)
            frags == PinFragments(out.val)
        IN /\ \A i \in 1..Len(frags) : frags[i].name \notin {"execute", "then", ""}
           /\ Len(frags) <= Len(items) - Cardinality(SentinelPlaces(items))
           /\ "pins" \in DOMAIN out.val => Len(out.val.pins) > 0
           /\ Cardinality(SentinelPlaces(items)) = Len(items) => "pins" \notin DOMAIN out.val

\* A sentinel pin with unreadable direction beside a pin that is emitted.
C10_Witness ==
    /\ pc = "done" /\ ~out.exc
    /\ Len(HostPinItems(node)) = 2
    /\ Cardinality(SentinelPlaces(HostPinItems(node))) = 1
    /\ \E i \in 1..2 : i \in SentinelPlaces(HostPinItems(node)) /\ HostPinItems(node)[i].direction.exc
    /\ Len(PinFragments(out.val)) = 1

\* ------------------------------------------------------------------------
\* serialize_graph

\* The try block around graph.get_class().get_name(): the key it adds.
GraphClassKeys(g) ==
    LET cls == GetClassName(g) IN
    IF cls.exc THEN NoKeys ELSE "class" :> cls.val

\* How many items a loop handles before one raises, given for each item in
\* turn whether handling it raises: the length of the longest prefix on
\* which none does.
Handled(raises) ==
    Cardinality({k \in 1..Len(raises) : \A j \in 1..k : ~raises[j]})

\* The node loop: `nodes` is created before the try and appended to inside
\* it, so a serialize_node that raises ends the loop and leaves the
\* fragments of the nodes before it.
NodeFragments(g) ==
    LET graph_nodes == GetEditorProperty(g, "nodes") IN
    IF graph_nodes.exc THEN <<>> ELSE
    IF ~Truthy(graph_nodes.val) THEN <<>> ELSE
    LET items == Items(graph_nodes.val) IN
    [i \in 1..Handled([k \in 1..Len(items) |-> serialize_node(items[k]).exc]) |->
        serialize_node(items[i]).val]

\* A read outcome: the read of the graph's name is unguarded.
serialize_graph(g) ==
    LET nm == GetName(g) IN
    IF nm.exc THEN Raise ELSE
    Ok([name |-> nm.val] @@ GraphClassKeys(g) @@ ("nodes" :> NodeFragments(g)))

\* ------------------------------------------------------------------------
\* Host graphs drawn by the specifications

ValuePin ==
    HostPin(Ok(Str("Value")), Ok(Enum(Chars("EGPD_Input"))), GoodType, Ok(Str("5")), Ok(List(<<>>)))

\* The nodes a graph's node list is drawn from, told apart by their names:
\* two well-formed nodes, a node whose kind tag is unreadable, a node whose
\* name is unreadable, a well-formed node with a pin.
GraphNodes ==
    {HostNode(Ok(K2Node_Event), Ok("Event_BeginPlay"), Ok(None), FullRefs, Ok(List(<<>>))),
     HostNode(Ok(K2Node_CallFunction), Ok("CallFunc_Print"), Ok(Str("note")), FullRefs,
              Ok(List(<<ValuePin>>))),
     HostNode(Raise, Ok("Broken_Kind"), Ok(None), FullRefs, Ok(List(<<>>))),
     HostNode(Ok(K2Node_VariableGet), Raise, Ok(None), FullRefs, Ok(List(<<>>)))}

HostGraph(nm, cls, nodes) ==
    [t |-> "obj", get_name |-> nm, get_class_name |-> cls, nodes |-> nodes]

NodesReads == {Raise, Ok(None)} \cup {Ok(List(q)) : q \in SeqsUpTo(GraphNodes, MaxNodes)}

\* ------------------------------------------------------------------------
\* Specification of serialize_graph

InitGraph ==
    /\ \E nm \in {Raise, Ok("EventGraph")}, cls \in {Raise, Ok("EdGraph")},
          nodes \in NodesReads :
            graph = HostGraph(nm, cls, nodes)
    /\ pin = Unused /\ node = Unused /\ asset_path = Unused /\ loaded = Unused
    /\ out = Unused
    /\ pc = "call"

CallSerializeGraph ==
    /\ pc = "call"
    /\ out' = serialize_graph(graph)
    /\ pc' = "done"
    /\ UNCHANGED <<pin, node, graph, asset_path, loaded>>

SpecGraph == InitGraph /\ [][CallSerializeGraph]_vars

\* ------------------------------------------------------------------------
\* Properties of serialize_graph

\* serialize_node of this host node fails: its kind tag or name is
\* unreadable.
NodeFails(n) == n.get_class_name.exc \/ n.get_name.exc

HostNodeItems(g) == IF ~g.nodes.exc /\ g.nodes.val.t = "list" THEN g.nodes.val.items ELSE <<>>

\* C3, as stated: when serializing one node of a graph fails, every other
\* node of the graph, the nodes after it included, is still in `nodes`:
\* `nodes` holds the fragments of exactly the nodes that serialize, in host
\* order.
C3_NodeFailureIsLocal ==
    (pc = "done" /\ ~out.exc) =>
        LET survivors == SelectSeq(HostNodeItems(graph), LAMBDA n : ~NodeFails(n)) IN
        /\ Len(out.val.nodes) = Len(survivors)
        /\ \A i \in 1..Len(survivors) : out.val.nodes[i].name = survivors[i].get_name.val

\* ------------------------------------------------------------------------
\* get_property_info, get_components

\* The fragments of the items whose extraction did not raise, in order.
OkVals(rs) ==
    LET kept == SelectSeq(rs, LAMBDA r : ~r.exc) IN [i \in 1..Len(kept) |-> kept[i].val]

\* The try block over has_any_property_flags: the host answers the flag
\* queries of one property from its flag set, or raises on them.
FlagKeys(prop) ==
    LET flags == GetEditorProperty(prop, "has_any_property_flags") IN
    IF flags.exc THEN NoKeys ELSE
    (IF "BLUEPRINT_VISIBLE" \in flags.val THEN "blueprint_visible" :> TRUE ELSE NoKeys)
    @@ (IF "BLUEPRINT_READ_ONLY" \in flags.val THEN "blueprint_read_only" :> TRUE ELSE NoKeys)
    @@ (IF "EDIT_ANYWHERE" \in flags.val THEN "edit_anywhere" :> TRUE ELSE NoKeys)
    @@ (IF "NET_REPLICATE" \in flags.val THEN "replicated" :> TRUE ELSE NoKeys)

\* The try block reading the property's value from the default object.
DefaultValueKeys(cdo, prop_name) ==
    LET value == GetEditorProperty(cdo, prop_name) IN
    IF value.exc THEN NoKeys
    ELSE IF value.val.t # "none" THEN "default_value" :> PyStr(value.val)
    ELSE NoKeys

\* The body of the property loop: a read outcome, raised ones are skipped.
PropertyInfo(prop, cdo) ==
    LET nm == GetName(prop) IN
    IF nm.exc THEN Raise ELSE
    LET cls == GetClassName(prop) IN
    IF cls.exc THEN Raise ELSE
    Ok([name |-> nm.val, property_class |-> cls.val]
       @@ DefaultValueKeys(cdo, nm.val) @@ FlagKeys(prop))

get_property_info(bp_class) ==
    LET cdo == GetEditorProperty(bp_class, "get_default_object") IN
    IF cdo.exc THEN <<>> ELSE
    IF ~Truthy(cdo.val) THEN <<>> ELSE
    LET props == GetEditorProperty(bp_class, "properties") IN
    IF props.exc THEN <<>> ELSE
    LET items == Items(props.val) IN
    OkVals([i \in 1..Len(items) |-> PropertyInfo(items[i], cdo.val)])

\* The body of the construction-script loop: a read outcome; a node with no
\* template and a node whose reads raise add nothing.
ComponentInfo(scs_node) ==
    LET template == GetEditorProperty(scs_node, "component_template") IN
    IF template.exc THEN Raise ELSE
    IF ~Truthy(template.val) THEN Raise ELSE
    LET nm == GetName(template.val) IN
    IF nm.exc THEN Raise ELSE
    LET cls == GetClassName(template.val) IN
    IF cls.exc THEN Raise ELSE
    LET parent_node == GetEditorProperty(scs_node, "parent_component_or_variable_name") IN
    IF parent_node.exc THEN Raise ELSE
    Ok([name |-> nm.val, class |-> cls.val]
       @@ (IF Truthy(parent_node.val) THEN "parent" :> PyStr(parent_node.val) ELSE NoKeys))

get_components(bp) ==
    LET scs == GetEditorProperty(bp, "simple_construction_script") IN
    IF scs.exc THEN <<>> ELSE
    IF ~Truthy(scs.val) THEN <<>> ELSE
    LET root_nodes == GetEditorProperty(scs.val, "get_all_nodes") IN
    IF root_nodes.exc THEN <<>> ELSE
    LET items == Items(root_nodes.val) IN
    OkVals([i \in 1..Len(items) |-> ComponentInfo(items[i])])

\* ------------------------------------------------------------------------
\* blueprint_to_text

\* The try block over generated_class: the keys it adds to result. Each key
\* is set before the next read, so a later failure keeps the keys already
\* set.
GeneratedClassKeys(asset) ==
    LET gen_class == GetEditorProperty(asset, "generated_class") IN
    IF gen_class.exc THEN NoKeys ELSE
    IF ~Truthy(gen_class.val) THEN NoKeys ELSE
    LET nm == GetName(gen_class.val) IN
    IF nm.exc THEN NoKeys ELSE
    LET generated == "generated_class" :> nm.val
        parent == GetEditorProperty(gen_class.val, "get_super_class")
    IN
    IF parent.exc THEN generated ELSE
    IF ~Truthy(parent.val) THEN generated ELSE
    LET pn == GetName(parent.val) IN
    IF pn.exc THEN generated ELSE generated @@ ("parent_class" :> pn.val)

\* The read of blueprint_type with its failure reported in the document.
BlueprintTypeKeys_reports_error(asset) ==
    LET bp_type == GetEditorProperty(asset, "blueprint_type") IN
    IF bp_type.exc THEN "error" :> "blueprint_type is unreadable"
    ELSE "blueprint_type" :> PyStr(bp_type.val)

BlueprintTypeKeys(asset) ==
    LET bp_type == GetEditorProperty(asset, "blueprint_type") IN
    IF bp_type.exc THEN NoKeys ELSE "blueprint_type" :> PyStr(bp_type.val)

\* The body of the interface loop: a read outcome; a record with no
\* interface class and a record whose reads raise add nothing.
InterfaceName(iface) ==
    LET iface_class == GetEditorProperty(iface, "interface") IN
    IF iface_class.exc THEN Raise ELSE
    IF ~Truthy(iface_class.val) THEN Raise ELSE GetName(iface_class.val)

\* The try block over implemented_interfaces: result["interfaces"] is set to
\* [] before the loop, and the loop appends the names that resolve.
InterfacesKeys(asset) ==
    LET interfaces == GetEditorProperty(asset, "implemented_interfaces") IN
    IF interfaces.exc THEN NoKeys ELSE
    IF ~(Truthy(interfaces.val) /\ Len(Items(interfaces.val)) > 0) THEN NoKeys ELSE
    LET items == Items(interfaces.val) IN
    "interfaces" :> OkVals([i \in 1..Len(items) |-> InterfaceName(items[i])])

VariablesKeys(asset) ==
    LET gen_class == GetEditorProperty(asset, "generated_class") IN
    IF gen_class.exc THEN NoKeys ELSE
    IF ~Truthy(gen_class.val) THEN NoKeys ELSE
    IF Len(get_property_info(gen_class.val)) > 0
    THEN "variables" :> get_property_info(gen_class.val)
    ELSE NoKeys

ComponentsKeys(asset) ==
    IF Len(get_components(asset)) > 0 THEN "components" :> get_components(asset) ELSE NoKeys

\* One of the three graph loops: the fragments appended to `graphs` from the
\* collection `property`, each stamped with graph_type. A serialize_graph
\* that raises ends this loop and leaves what it appended before.
GraphFragments(asset, property, graph_type) ==
    LET pages == GetEditorProperty(asset, property) IN
    IF pages.exc THEN <<>> ELSE
    IF ~Truthy(pages.val) THEN <<>> ELSE
    LET items == Items(pages.val) IN
    [i \in 1..Handled([k \in 1..Len(items) |-> serialize_graph(items[k]).exc]) |->
        serialize_graph(items[i]).val @@ ("graph_type" :> graph_type)]

\* The three loops with the Function and the Macro loop in the other order.
AllGraphFragments_macros_first(asset) ==
    GraphFragments(asset, "ubergraph_pages", "EventGraph")
    \o GraphFragments(asset, "macro_graphs", "Macro")
    \o GraphFragments(asset, "function_graphs", "Function")

\* `graphs` after the three loops.
AllGraphFragments(asset) ==
    GraphFragments(asset, "ubergraph_pages", "EventGraph")
    \o GraphFragments(asset, "function_graphs", "Function")
    \o GraphFragments(asset, "macro_graphs", "Macro")

GraphsKeys(asset) ==
    IF Len(AllGraphFragments(asset)) > 0 THEN "graphs" :> AllGraphFragments(asset) ELSE NoKeys

\* isinstance(asset, unreal.Blueprint)
IsBlueprint(asset) == asset.t = "blueprint"

NotFoundDocument(path) == [error |-> "Asset not found: " \o path]

WrongKindDocument(path, kind) ==
    [error |-> "Asset is not a Blueprint: " \o path \o " (class: " \o kind \o ")"]

\* A read outcome: the class name in the wrong-kind message and the asset's
\* name and path name are read outside any try.
blueprint_to_text(path, asset) ==
    IF ~Truthy(asset) THEN Ok(NotFoundDocument(path)) ELSE
    IF ~IsBlueprint(asset)
    THEN LET cls == GetClassName(asset) IN
         IF cls.exc THEN Raise ELSE Ok(WrongKindDocument(path, cls.val))
    ELSE
    LET nm == GetName(asset) IN
    IF nm.exc THEN Raise ELSE
    LET pn == GetPathName(asset) IN
    IF pn.exc THEN Raise ELSE
    Ok([name |-> nm.val, path |-> pn.val]
       @@ GeneratedClassKeys(asset) @@ BlueprintTypeKeys(asset) @@ InterfacesKeys(asset)
       @@ VariablesKeys(asset) @@ ComponentsKeys(asset) @@ GraphsKeys(asset))

\* ------------------------------------------------------------------------
\* Host assets drawn by the specifications

Paths == {"/Game/Missing", "/Game/BP_Door"}

NonBlueprint(cls) == [t |-> "obj", get_class_name |-> cls]

HostProperty(nm, cls, flags) ==
    [t |-> "obj", get_name |-> nm, get_class_name |-> cls, has_any_property_flags |-> flags]

DoorProperties ==
    <<HostProperty(Ok("Health"), Ok("FloatProperty"), Ok({"BLUEPRINT_VISIBLE", "EDIT_ANYWHERE"})),
      HostProperty(Raise, Ok("IntProperty"), Ok({})),
      HostProperty(Ok("Speed"), Ok("FloatProperty"), Raise),
      HostProperty(Ok("Locked"), Ok("BoolProperty"), Ok({"BLUEPRINT_READ_ONLY", "NET_REPLICATE"}))>>

DoorDefaults == [t |-> "obj", Health |-> Ok(Str("100.0")), Speed |-> Ok(None)]

GenClass(nm, super, cdo, props) ==
    [t |-> "obj", get_name |-> nm, get_super_class |-> super, get_default_object |-> cdo,
     properties |-> props]

GeneratedClassReads ==
    {Raise, Ok(None),
     Ok(GenClass(Ok("BP_Door_C"), Ok(NamedObj(Ok("Actor"))), Ok(DoorDefaults), Ok(List(DoorProperties)))),
     Ok(GenClass(Raise, Ok(NamedObj(Ok("Actor"))), Ok(None), Ok(List(DoorProperties)))),
     Ok(GenClass(Ok("BP_Door_C"), Raise, Raise, Ok(List(DoorProperties)))),
     Ok(GenClass(Ok("BP_Door_C"), Ok(NamedObj(Raise)), Ok(DoorDefaults), Raise)),
     Ok(GenClass(Ok("BP_Door_C"), Ok(None), Ok(DoorDefaults), Ok(List(<<>>))))}

ScsNode(template, parent) ==
    [t |-> "obj", component_template |-> template,
     parent_component_or_variable_name |-> parent]

Template(nm, cls) == [t |-> "obj", get_name |-> nm, get_class_name |-> cls]

DoorScsNodes ==
    <<ScsNode(Ok(Template(Ok("Root"), Ok("SceneComponent"))), Ok(None)),
      ScsNode(Ok(None), Ok(Str("Root"))),
      ScsNode(Ok(Template(Ok("Mesh"), Ok("StaticMeshComponent"))), Ok(Str("Root"))),
      ScsNode(Ok(Template(Raise, Ok("BoxComponent"))), Ok(Str("Root"))),
      ScsNode(Ok(Template(Ok("Light"), Ok("PointLightComponent"))), Raise)>>

Scs(nodes) == [t |-> "obj", get_all_nodes |-> nodes]

ScsReads == {Raise, Ok(None), Ok(Scs(Raise)), Ok(Scs(Ok(List(DoorScsNodes))))}

Interface(cls) == [t |-> "obj", interface |-> cls]

InterfaceRecords ==
    {Interface(Ok(NamedObj(Ok("BPI_Interactable")))),
     Interface(Ok(NamedObj(Ok("BPI_Damageable")))),
     Interface(Raise), Interface(Ok(None)), Interface(Ok(NamedObj(Raise)))}

InterfacesReads ==
    {Raise, Ok(None)} \cup {Ok(List(q)) : q \in SeqsUpTo(InterfaceRecords, MaxInterfaces)}

\* The graph at place i of a category: its name tells the category and the
\* place; a broken graph is one whose name is unreadable.
GraphAt(category, i, broken) ==
    HostGraph(IF broken THEN Raise ELSE Ok(category \o "_" \o ToString(i)), Ok("EdGraph"),
              Ok(List(<<HostNode(Ok(K2Node_Event), Ok("Node_" \o ToString(i)), Ok(None),
                                 FullRefs, Ok(List(<<>>)))>>)))

GraphsReads(category) ==
    {Raise, Ok(None)} \cup
    {Ok(List([i \in 1..Len(q) |-> GraphAt(category, i, q[i])])) :
        q \in SeqsUpTo(BOOLEAN, MaxGraphs)}

Blueprint(nm, pn, gen, bpt, ifaces, scs, events, functions, macros) ==
    [t |-> "blueprint", get_name |-> nm, get_path_name |-> pn, generated_class |-> gen,
     blueprint_type |-> bpt, implemented_interfaces |-> ifaces,
     simple_construction_script |-> scs, ubergraph_pages |-> events,
     function_graphs |-> functions, macro_graphs |-> macros]

FullGenClass ==
    Ok(GenClass(Ok("BP_Door_C"), Ok(NamedObj(Ok("Actor"))), Ok(DoorDefaults), Ok(List(DoorProperties))))

\* ------------------------------------------------------------------------
\* Specification of blueprint_to_text, as main calls it: `loaded` is what
\* load_asset yields for asset_path, and `out` the document that is printed,
\* or the exception that leaves main.

\* What load_asset may yield: nothing, an asset of another kind, a Blueprint
\* with every combination of metadata reads over fixed graphs, a Blueprint
\* with fixed metadata over every combination of the three graph
\* collections.
InitAsset ==
    /\ asset_path \in Paths
    /\ \/ loaded \in {None, NonBlueprint(Ok("StaticMesh")), NonBlueprint(Raise)}
       \/ \E nm \in {Raise, Ok("BP_Door")}, pn \in {Raise, Ok("/Game/BP_Door.BP_Door")},
             gen \in GeneratedClassReads, bpt \in {Raise, Ok(Str("BPTYPE_Normal"))},
             ifaces \in InterfacesReads, scs \in ScsReads :
               loaded = Blueprint(nm, pn, gen, bpt, ifaces, scs,
                                  Ok(List(<<GraphAt("Event", 1, FALSE)>>)), Raise, Ok(None))
       \/ \E events \in GraphsReads("Event"), functions \in GraphsReads("Function"),
             macros \in GraphsReads("Macro") :
               loaded = Blueprint(Ok("BP_Door"), Ok("/Game/BP_Door.BP_Door"), FullGenClass,
                                  Ok(Str("BPTYPE_Normal")), Ok(None),
                                  Ok(Scs(Ok(List(DoorScsNodes)))), events, functions, macros)
    /\ pin = Unused /\ node = Unused /\ graph = Unused
    /\ out = Unused
    /\ pc = "call"

CallBlueprintToText ==
    /\ pc = "call"
    /\ out' = blueprint_to_text(asset_path, loaded)
    /\ pc' = "done"
    /\ UNCHANGED <<pin, node, graph, asset_path, loaded>>

SpecAsset == InitAsset /\ [][CallBlueprintToText]_vars

\* ------------------------------------------------------------------------
\* Properties of blueprint_to_text

\* C1, as stated: whatever host read fails, blueprint_to_text returns a
\* document and does not raise.
C1_NeverRaises == pc = "done" => ~out.exc

\* C2: the returned document holds `error` if and only if the path resolved
\* to no asset or to an asset that is no Blueprint; it is then the document
\* with that one key and the message of the case, and no failing read of a
\* Blueprint adds the key.
C2_ErrorOnlyForFatalConditions ==
    (pc = "done" /\ ~out.exc) =>
        /\ "error" \in DOMAIN out.val <=> (loaded.t = "none" \/ loaded.t # "blueprint")
        /\ loaded.t = "none" => out.val = [error |-> "Asset not found: " \o asset_path]
        /\ loaded.t = "obj" =>
              out.val = [error |-> "Asset is not a Blueprint: " \o asset_path
                                      \o " (class: " \o loaded.get_class_name.val \o ")"]

\* A Blueprint most of whose reads fail, and whose document has no `error`.
C2_Witness ==
    /\ pc = "done" /\ ~out.exc
    /\ loaded.t = "blueprint"
    /\ loaded.generated_class.exc /\ loaded.blueprint_type.exc
    /\ loaded.implemented_interfaces.exc /\ loaded.simple_construction_script.exc
    /\ "error" \notin DOMAIN out.val
    /\ "name" \in DOMAIN out.val

\* The interface record resolves to a class name.
Resolves(iface) ==
    /\ ~iface.interface.exc
    /\ iface.interface.val.t = "obj"
    /\ ~iface.interface.val.get_name.exc

HostInterfaces(asset) ==
    IF ~asset.implemented_interfaces.exc /\ asset.implemented_interfaces.val.t = "list"
    THEN asset.implemented_interfaces.val.items ELSE <<>>

\* C6, as stated: `interfaces` is in the asset document if and only if at
\* least one implemented-interface record resolved to a class name.
C6_InterfacesOmittedWhenEmpty ==
    (pc = "done" /\ ~out.exc /\ loaded.t = "blueprint") =>
        ("interfaces" \in DOMAIN out.val
            <=> \E i \in 1..Len(HostInterfaces(loaded)) : Resolves(HostInterfaces(loaded)[i]))

GraphTypes == <<"EventGraph", "Function", "Macro">>
GraphCollections == <<"ubergraph_pages", "function_graphs", "macro_graphs">>

Rank(graph_type) == CHOOSE c \in 1..3 : GraphTypes[c] = graph_type

HostGraphs(asset, c) ==
    LET pages == asset[GraphCollections[c]] IN
    IF ~pages.exc /\ pages.val.t = "list" THEN pages.val.items ELSE <<>>

DocumentGraphs(doc) == IF "graphs" \in DOMAIN doc THEN doc.graphs ELSE <<>>

\* C8: in `graphs`, the event graphs come first, then the function graphs,
\* then the macro graphs; every fragment is typed EventGraph, Function or
\* Macro after the collection it came from; the fragments of a category are
\* the graphs of its collection in host order, up to the first one that
\* fails; a category none of whose graphs fails is there in full, whatever
\* fails in the other categories.
C8_GraphsOrderedByCategory ==
    (pc = "done" /\ ~out.exc /\ loaded.t = "blueprint") =>
        LET graphs == DocumentGraphs(out.val) IN
        /\ \A i \in 1..Len(graphs) : \E c \in 1..3 : graphs[i].graph_type = GraphTypes[c]
        /\ \A i, j \in 1..Len(graphs) :
              i < j => Rank(graphs[i].graph_type) <= Rank(graphs[j].graph_type)
        /\ \A c \in 1..3 :
              LET mine == SelectSeq(graphs, LAMBDA g : g.graph_type = GraphTypes[c])
                  host == HostGraphs(loaded, c)
              IN /\ Len(mine) <= Len(host)
                 /\ \A i \in 1..Len(mine) :
                       ~host[i].get_name.exc /\ mine[i].name = host[i].get_name.val
                 /\ (\A i \in 1..Len(host) : ~host[i].get_name.exc) => Len(mine) = Len(host)
        /\ "graphs" \in DOMAIN out.val => Len(out.val.graphs) > 0

\* The first event graph fails; two function graphs and a macro graph are
\* all in the document.
C8_Witness ==
    /\ pc = "done" /\ ~out.exc /\ loaded.t = "blueprint"
    /\ Len(HostGraphs(loaded, 1)) = 2 /\ HostGraphs(loaded, 1)[1].get_name.exc
    /\ Len(HostGraphs(loaded, 2)) = 2 /\ Len(HostGraphs(loaded, 3)) = 1
    /\ Len(DocumentGraphs(out.val)) = 3
    /\ DocumentGraphs(out.val)[1].graph_type = "Function"
    /\ DocumentGraphs(out.val)[3].graph_type = "Macro"

====
